---------------------------- MODULE Spec2Model ----------------------------
(***************************************************************************)
(* Model of src/app.py: the SQLite-backed book catalog (DatabaseManager),  *)
(* the LIKE-based search (find_books), the subject-based recommendation    *)
(* (get_recommendations) and the Flask handlers that call them.            *)
(*                                                                         *)
(* Text is a sequence of characters, each character a one-element token.   *)
(* The two characters outside ASCII that the model uses are written        *)
(* "U+00C9" (capital E with acute) and "U+00E9" (small e with acute).      *)
(* Prices are REAL values; the model writes them in hundredths (750.00 is  *)
(* 75000), which is exact for every price it uses.                         *)
(*                                                                         *)
(* The storage engine itself is assumed to work (no lock timeout, no I/O   *)
(* failure): the sqlite3.Error branches the model takes are the ones the   *)
(* inputs decide (a NOT NULL violation).                                   *)
(***************************************************************************)
EXTENDS Integers, Sequences, FiniteSets, Bags, TLC

VARIABLES
    books,      \* the rows of table "books": a set of records
    seq,        \* sqlite_sequence.seq for "books" (AUTOINCREMENT high-water mark)
    assigned,   \* history: every book_id the store has ever assigned
    adds,       \* history: number of admin_add_book requests so far
    ret,        \* what the last operation was given and what it returned
    pc,         \* position of the in-flight student_chat request
    chat        \* locals of the in-flight student_chat request

vars == <<books, seq, assigned, adds, ret, pc, chat>>

(***************************************************************************)
(* Bounds.                                                                 *)
(***************************************************************************)
\* Largest value of an SQLite INTEGER (2^63 - 1 in the engine), scaled down.
\* A bound integer above it raises OverflowError; the guards of the
\* inserting actions keep the rowid counter from reaching it.
MaxInt64 == 10

\* Number of admin_add_book requests in one behaviour.
MaxAdds == 1

(***************************************************************************)
(* Characters and the two case mappings the code uses.                     *)
(***************************************************************************)
UPPER ==
    <<"A", "B", "C", "D", "E", "F", "G", "H", "I", "J", "K", "L", "M",
      "N", "O", "P", "Q", "R", "S", "T", "U", "V", "W", "X", "Y", "Z">>

LOWER ==
    <<"a", "b", "c", "d", "e", "f", "g", "h", "i", "j", "k", "l", "m",
      "n", "o", "p", "q", "r", "s", "t", "u", "v", "w", "x", "y", "z">>

Chars ==
    {UPPER[i] : i \in 1..26} \cup {LOWER[i] : i \in 1..26}
        \cup {" ", "+", ":", "%", "_", "U+00C9", "U+00E9"}

\* ASCII-only folding: what SQLite's built-in LOWER() and LIKE do to one
\* character (no ICU extension): A-Z fold, everything else is kept.
AsciiLowerChar ==
    [c \in Chars |->
        IF \E i \in 1..26 : UPPER[i] = c
        THEN LOWER[CHOOSE i \in 1..26 : UPPER[i] = c]
        ELSE c]

\* Unicode folding: what Python's str.lower() does to one character.
PyLowerChar ==
    [c \in Chars |-> IF c = "U+00C9" THEN "U+00E9" ELSE AsciiLowerChar[c]]

\* str.lower() of src/app.py:113, 131, 140, 158
py_lower(s) == [i \in 1..Len(s) |-> PyLowerChar[s[i]]]

\* LOWER(name), LOWER(subject) of the SQL at src/app.py:118
sql_lower(s) == [i \in 1..Len(s) |-> AsciiLowerChar[s[i]]]

RECURSIVE py_lstrip(_)
py_lstrip(s) ==
    IF s # <<>> /\ s[1] = " " THEN py_lstrip(Tail(s)) ELSE s

RECURSIVE py_rstrip(_)
py_rstrip(s) ==
    IF s # <<>> /\ s[Len(s)] = " "
    THEN py_rstrip(SubSeq(s, 1, Len(s) - 1))
    ELSE s

\* str.strip() of src/app.py:113, 131, 271
py_strip(s) == py_rstrip(py_lstrip(s))

\* Python's "sub in text" on strings (src/app.py:140)
py_in(sub, text) ==
    \E i \in 0..(Len(text) - Len(sub)) : SubSeq(text, i + 1, i + Len(sub)) = sub

\* SQLite's "text LIKE pat": % matches any run of characters, _ matches any
\* one character, any other character matches itself up to ASCII case.
RECURSIVE sql_like(_, _)
sql_like(pat, text) ==
    IF pat = <<>> THEN text = <<>>
    ELSE IF pat = <<"%">> THEN TRUE
    ELSE IF pat[1] = "%"
         THEN \E k \in 0..Len(text) :
                 sql_like(Tail(pat), SubSeq(text, k + 1, Len(text)))
    ELSE IF text = <<>> THEN FALSE
    ELSE IF pat[1] = "_" THEN sql_like(Tail(pat), Tail(text))
    ELSE /\ AsciiLowerChar[pat[1]] = AsciiLowerChar[text[1]]
         /\ sql_like(Tail(pat), Tail(text))

(***************************************************************************)
(* The literal seed rows of _insert_initial_data.                          *)
(***************************************************************************)
NAME_CPP ==
    <<"T", "h", "e", " ", "C", "+", "+", " ", "P", "r", "o", "g", "r", "a", "m",
      "m", "i", "n", "g", " ", "L", "a", "n", "g", "u", "a", "g", "e">>

NAME_CALCULUS ==
    <<"C", "a", "l", "c", "u", "l", "u", "s", ":", " ", "E", "a", "r", "l", "y",
      " ", "T", "r", "a", "n", "s", "c", "e", "n", "d", "e", "n", "t", "a", "l",
      "s">>

NAME_DATASCI ==
    <<"I", "n", "t", "r", "o", "d", "u", "c", "t", "i", "o", "n", " ", "t", "o",
      " ", "D", "a", "t", "a", " ", "S", "c", "i", "e", "n", "c", "e">>

NAME_LINALG ==
    <<"L", "i", "n", "e", "a", "r", " ", "A", "l", "g", "e", "b", "r", "a", " ",
      "a", "n", "d", " ", "I", "t", "s", " ", "A", "p", "p", "l", "i", "c", "a",
      "t", "i", "o", "n", "s">>

NAME_ORGCHEM ==
    <<"O", "r", "g", "a", "n", "i", "c", " ", "C", "h", "e", "m", "i", "s", "t",
      "r", "y">>

SUBJ_CS ==
    <<"C", "o", "m", "p", "u", "t", "e", "r", " ", "S", "c", "i", "e", "n", "c",
      "e">>

SUBJ_MATH == <<"M", "a", "t", "h", "e", "m", "a", "t", "i", "c", "s">>

SUBJ_SCIENCE == <<"S", "c", "i", "e", "n", "c", "e">>

initial_books ==
    << [name |-> NAME_CPP,      subject |-> SUBJ_CS,      price |-> 75000,  edition |-> 4],
       [name |-> NAME_CALCULUS, subject |-> SUBJ_MATH,    price |-> 98050,  edition |-> 8],
       [name |-> NAME_DATASCI,  subject |-> SUBJ_CS,      price |-> 62000,  edition |-> 2],
       [name |-> NAME_LINALG,   subject |-> SUBJ_MATH,    price |-> 85000,  edition |-> 5],
       [name |-> NAME_ORGCHEM,  subject |-> SUBJ_SCIENCE, price |-> 110000, edition |-> 10] >>

(***************************************************************************)
(* DatabaseManager: the table and its primitives.                          *)
(***************************************************************************)
Row(id, v) ==
    [book_id |-> id, name |-> v.name, subject |-> v.subject,
     price |-> v.price, edition |-> v.edition]

Ids(table) == {b.book_id : b \in table}

\* Mutation of next_rowid: the column declared without AUTOINCREMENT, which
\* gives one more than the largest rowid now in the table.
next_rowid_max(table, s) ==
    IF table = {} THEN 1
    ELSE (CHOOSE i \in Ids(table) : \A j \in Ids(table) : j <= i) + 1

\* The rowid an INSERT gets from "INTEGER PRIMARY KEY AUTOINCREMENT": one more
\* than the largest rowid the table has ever held.
next_rowid(table, s) == s + 1

\* _insert_initial_data: executemany over initial_books, one INSERT per row,
\* inside the caller's transaction.
RECURSIVE insert_initial_data(_, _, _)
insert_initial_data(table, s, i) ==
    IF i > Len(initial_books)
    THEN [books |-> table, seq |-> s]
    ELSE LET id == next_rowid(table, s) IN
         insert_initial_data(table \cup {Row(id, initial_books[i])}, id, i + 1)

\* Mutation of initialize_db: the seed rows inserted without the COUNT(*)
\* test.
initialize_db_unconditional(table, s) ==
    LET r == insert_initial_data(table, s, 1) IN
    [books |-> r.books, seq |-> r.seq, seeded |-> TRUE]

\* _initialize_db: CREATE TABLE IF NOT EXISTS; seed and commit when
\* SELECT COUNT(*) is 0.
initialize_db(table, s) ==
    IF Cardinality(table) = 0
    THEN LET r == insert_initial_data(table, s, 1) IN
         [books |-> r.books, seq |-> r.seq, seeded |-> TRUE]
    ELSE [books |-> table, seq |-> s, seeded |-> FALSE]

\* The values add_book binds. price: a float, "nan" binds as NULL.
\* edition: an int, one above MaxInt64 does not fit an SQLite INTEGER.
NaN == [nan |-> TRUE, val |-> 0]

Num(n) == [nan |-> FALSE, val |-> n]

\* Mutation of add_book: name and subject bound in each other's place.
add_book_swapped(table, s, name, subject, price, edition) ==
    IF edition > MaxInt64
    THEN [books |-> table, seq |-> s, raised |-> "OverflowError", book_id |-> 0]
    ELSE IF price.nan
    THEN [books |-> table, seq |-> s, raised |-> "", book_id |-> 0]
    ELSE LET id == next_rowid(table, s) IN
         [books |-> table \cup
              {Row(id, [name |-> subject, subject |-> name,
                        price |-> price.val, edition |-> edition])},
          seq |-> id, raised |-> "", book_id |-> id]

\* add_book: INSERT, commit, return lastrowid; None on sqlite3.Error; an
\* OverflowError from binding is not caught here.
add_book(table, s, name, subject, price, edition) ==
    IF edition > MaxInt64
    THEN [books |-> table, seq |-> s, raised |-> "OverflowError", book_id |-> 0]
    ELSE IF price.nan
    THEN \* NOT NULL constraint failed: books.price (IntegrityError)
         [books |-> table, seq |-> s, raised |-> "", book_id |-> 0]
    ELSE LET id == next_rowid(table, s) IN
         [books |-> table \cup
              {Row(id, [name |-> name, subject |-> subject,
                        price |-> price.val, edition |-> edition])},
          seq |-> id, raised |-> "", book_id |-> id]

\* remove_book: DELETE ... WHERE book_id = ?, commit, return rowcount > 0.
remove_book(table, book_id) ==
    IF book_id > MaxInt64
    THEN [books |-> table, raised |-> "OverflowError", removed |-> FALSE]
    ELSE LET hit == {b \in table : b.book_id = book_id} IN
         [books |-> table \ hit, raised |-> "", removed |-> Cardinality(hit) > 0]

\* Rows of a table as a list, by book_id descending.
RECURSIVE by_id_desc(_)
by_id_desc(table) ==
    IF table = {} THEN <<>>
    ELSE LET top == CHOOSE b \in table : \A c \in table : c.book_id <= b.book_id
         IN <<top>> \o by_id_desc(table \ {top})

\* Rows of a table as a list, in rowid order (a SELECT without ORDER BY over
\* the rowid table).
RECURSIVE by_rowid(_)
by_rowid(table) ==
    IF table = {} THEN <<>>
    ELSE LET low == CHOOSE b \in table : \A c \in table : b.book_id <= c.book_id
         IN <<low>> \o by_rowid(table \ {low})

\* get_all_books: SELECT * FROM books ORDER BY book_id DESC
get_all_books(table) == by_id_desc(table)

Range(f) == {f[i] : i \in DOMAIN f}

(***************************************************************************)
(* Search and recommendation.                                              *)
(***************************************************************************)
\* Mutation of normalize: the query lower-cased but not stripped.
normalize_unstripped(query) == py_lower(query)

\* query.strip().lower(), src/app.py:113 and :131
normalize(query) == py_lower(py_strip(query))

\* The WHERE clause of find_books for one row, under parameter query_param.
like_row(b, query_param) ==
    \/ sql_like(query_param, sql_lower(b.name))
    \/ sql_like(query_param, sql_lower(b.subject))

\* find_books: SELECT * FROM books WHERE LOWER(name) LIKE ? OR
\* LOWER(subject) LIKE ?, with '%' + query.strip().lower() + '%' for both.
find_books(table, query) ==
    LET query_param == <<"%">> \o normalize(query) \o <<"%">> IN
    by_rowid({b \in table : like_row(b, query_param)})

\* {book['subject'] for book in db_manager.get_all_books()}
all_subjects(table) == {b.subject : b \in Range(get_all_books(table))}

\* Mutation of all_subjects_str: the subjects collected in a list, one entry
\* per book, instead of a set.
all_subjects_str_per_book(table) ==
    IF table # {}
    THEN [none |-> FALSE,
          listed |-> [s \in {b.subject : b \in table} |->
                         Cardinality({b \in table : b.subject = s})]]
    ELSE [none |-> TRUE, listed |-> EmptyBag]

\* ", ".join(all_subjects) if all_subjects else "No subjects available."
\* The joined text is kept as the bag of the pieces it joins: a set has no
\* order, and the bag says how often each subject is written.
all_subjects_str(table) ==
    IF all_subjects(table) # {}
    THEN [none |-> FALSE, listed |-> SetToBag(all_subjects(table))]
    ELSE [none |-> TRUE, listed |-> EmptyBag]

\* Step 1 of get_recommendations, on the normalized query: the outcomes the
\* iteration order of the subject set allows. The empty string is falsy, so
\* a matched empty subject counts as no match (src/app.py:142).
determine_target(table, query, found_books) ==
    IF found_books # <<>>
    THEN {[matched |-> TRUE, target_subject |-> found_books[1].subject]}
    ELSE LET hits == {s \in all_subjects(table) : py_in(query, py_lower(s))} IN
         IF hits = {}
         THEN {[matched |-> FALSE, target_subject |-> <<>>]}
         ELSE {[matched |-> s # <<>>, target_subject |-> s] : s \in hits}

\* The early return of src/app.py:143-145.
no_match_result(table, query) ==
    [message |-> [kind |-> "no_match", query |-> query,
                  subjects |-> all_subjects_str(table)],
     books |-> <<>>]

\* Mutation of keep_recommended: the name compared without lower-casing.
keep_recommended_case_sensitive(b, query) == b.name # query

\* The name filter of src/app.py:158.
keep_recommended(b, query) == py_lower(b.name) # query

\* Step 2: SELECT * FROM books WHERE subject = ?, minus the rows named like
\* the query.
related_result(table, query, target_subject) ==
    [message |-> [kind |-> "related", target_subject |-> target_subject],
     books |-> by_rowid({b \in table :
                  b.subject = target_subject /\ keep_recommended(b, query)})]

\* get_recommendations(db_manager, query, found_books): the set of results
\* it can return.
get_recommendations(table, raw_query, found_books) ==
    LET query == normalize(raw_query) IN
    {IF t.matched
     THEN related_result(table, query, t.target_subject)
     ELSE no_match_result(table, query)
       : t \in determine_target(table, query, found_books)}

(***************************************************************************)
(* Inputs.                                                                 *)
(***************************************************************************)
\* session.get('role')
Roles == {"admin", "student"}

NAME_MATH == <<"M", "a", "t", "h">>

NAME_ZQ == <<"Z", "q">>

SUBJ_EZ == <<"U+00C9", "z">>

\* A form field: numeric text (val is the number), the text "nan", or text
\* that is no number.
Field(kind, val) == [kind |-> kind, val |-> val]

Form(n, s, p, e) == [name |-> n, subject |-> s, price |-> p, edition |-> e]

AddForms ==
    { Form(NAME_MATH, SUBJ_MATH, Field("num", 1000), Field("num", 1)),
      Form(NAME_ZQ, SUBJ_EZ, Field("num", 1000), Field("num", 1)),
      Form(<<>>, <<>>, Field("num", 1000), Field("num", 1)),
      Form(NAME_MATH, SUBJ_MATH, Field("num", -1), Field("num", 0)),
      Form(NAME_ZQ, SUBJ_EZ, Field("nan", 0), Field("num", 1)),
      Form(NAME_ZQ, SUBJ_EZ, Field("text", 0), Field("num", 1)),
      Form(NAME_ZQ, SUBJ_EZ, Field("num", 1000), Field("text", 0)),
      Form(NAME_ZQ, SUBJ_EZ, Field("num", 1000), Field("num", MaxInt64 + 1)) }

\* <int:book_id> of the remove route: any non-negative integer.
RemoveIds == 0..(MaxInt64 + 1)

Queries ==
    { <<>>, <<" ">>,
      <<"m", "a", "t", "h">>, <<" ", "M", "A", "T", "H", " ">>,
      <<"_">>, <<"%">>,
      <<"U+00E9">>, <<" ", "U+00C9">>,
      <<"z">>, <<"z", "z">>,
      <<"O", "R", "G", "A", "N", "I", "C", " ", "C", "H", "E", "M", "I", "S",
        "T", "R", "Y">> }

ChatQueries ==
    { <<>>, <<" ">>, <<"U+00E9">>, <<"z">>, <<"z", "z">>,
      <<" ", "M", "A", "T", "H", " ">> }

(***************************************************************************)
(* The state machine.                                                      *)
(***************************************************************************)
NoChat == [query |-> <<>>, found_books |-> <<>>, target_subject |-> <<>>,
           modified |-> FALSE]

\* db_manager = DatabaseManager() on a database file that does not exist yet.
Init ==
    LET r == initialize_db({}, 0) IN
    /\ books = r.books
    /\ seq = r.seq
    /\ assigned = Ids(r.books)
    /\ adds = 0
    /\ ret = [op |-> "initialize", before |-> {}, seeded |-> r.seeded]
    /\ pc = "idle"
    /\ chat = NoChat

\* A store change while a chat request is between its reads.
Touched(table) ==
    IF pc # "idle" /\ table # books
    THEN [chat EXCEPT !.modified = TRUE]
    ELSE chat

\* The process starts again on the existing database file: the module-level
\* db_manager = DatabaseManager() runs _initialize_db. A request in flight
\* is gone.
Initialize ==
    /\ seq + Len(initial_books) <= MaxInt64
    /\ LET r == initialize_db(books, seq) IN
       /\ books' = r.books
       /\ seq' = r.seq
       /\ assigned' = assigned \cup Ids(r.books)
       /\ ret' = [op |-> "initialize", before |-> books, seeded |-> r.seeded]
    /\ pc' = "idle"
    /\ chat' = NoChat
    /\ adds' = adds

\* float(request.form['price'])
py_float(f) ==
    IF f.kind = "text" THEN [ok |-> FALSE, value |-> NaN]
    ELSE IF f.kind = "nan" THEN [ok |-> TRUE, value |-> NaN]
    ELSE [ok |-> TRUE, value |-> Num(f.val)]

\* int(request.form['edition'])
py_int(f) ==
    IF f.kind = "num" THEN [ok |-> TRUE, value |-> f.val]
    ELSE [ok |-> FALSE, value |-> 0]

\* admin_add_book: what the handler does to the store and what it flashes.
admin_add_book(table, s, role, form) ==
    IF role # "admin"
    THEN [books |-> table, seq |-> s, flash |-> "unauthorized", book_id |-> 0]
    ELSE IF ~py_float(form.price).ok \/ ~py_int(form.edition).ok
    THEN [books |-> table, seq |-> s, flash |-> "value_error", book_id |-> 0]
    ELSE LET r == add_book(table, s, form.name, form.subject,
                           py_float(form.price).value, py_int(form.edition).value)
         IN IF r.raised # ""
            THEN [books |-> r.books, seq |-> r.seq, flash |-> "application_error",
                  book_id |-> 0]
            ELSE IF r.book_id # 0
            THEN [books |-> r.books, seq |-> r.seq, flash |-> "success",
                  book_id |-> r.book_id]
            ELSE [books |-> r.books, seq |-> r.seq, flash |-> "failed",
                  book_id |-> 0]

\* An unauthorized request is answered before its arguments are read.
Unauthorized(op, role) ==
    [op |-> op, before |-> books, role |-> role, flash |-> "unauthorized"]

AdminAdd ==
    /\ adds < MaxAdds
    /\ seq < MaxInt64
    /\ \E role \in Roles :
          IF role # "admin"
          THEN /\ ret' = Unauthorized("admin_add", role)
               /\ UNCHANGED <<books, seq, assigned, chat>>
          ELSE \E form \in AddForms :
                  LET r == admin_add_book(books, seq, role, form) IN
                  /\ books' = r.books
                  /\ seq' = r.seq
                  /\ assigned' = assigned \cup Ids(r.books)
                  /\ ret' = [op |-> "admin_add", before |-> books,
                             role |-> role, flash |-> r.flash, form |-> form,
                             book_id |-> r.book_id]
                  /\ chat' = Touched(r.books)
    /\ adds' = adds + 1
    /\ pc' = pc

\* admin_remove_book: the handler has no try, an exception of remove_book
\* leaves it as an error response.
admin_remove_book(table, role, book_id) ==
    IF role # "admin"
    THEN [books |-> table, flash |-> "unauthorized", raised |-> "",
          removed |-> FALSE]
    ELSE LET r == remove_book(table, book_id) IN
         [books |-> r.books,
          flash |-> IF r.raised # "" THEN "" ELSE
                    IF r.removed THEN "success" ELSE "warning",
          raised |-> r.raised, removed |-> r.removed]

AdminRemove ==
    /\ \E role \in Roles :
          IF role # "admin"
          THEN /\ ret' = Unauthorized("admin_remove", role)
               /\ UNCHANGED <<books, chat>>
          ELSE \E book_id \in RemoveIds :
                  LET r == admin_remove_book(books, role, book_id) IN
                  /\ books' = r.books
                  /\ ret' = [op |-> "admin_remove", before |-> books,
                             role |-> role, flash |-> r.flash,
                             book_id |-> book_id, raised |-> r.raised,
                             removed |-> r.removed]
                  /\ chat' = Touched(r.books)
    /\ UNCHANGED <<seq, assigned, adds, pc>>

\* admin_dashboard: renders get_all_books() for an admin.
AdminDashboard ==
    /\ \E role \in Roles :
          IF role # "admin"
          THEN ret' = Unauthorized("admin_dashboard", role)
          ELSE ret' = [op |-> "admin_dashboard", before |-> books,
                       role |-> role, flash |-> "",
                       books |-> get_all_books(books)]
    /\ UNCHANGED <<books, seq, assigned, adds, pc, chat>>

\* A call of find_books(db_manager, query).
Search ==
    /\ \E query \in Queries :
          ret' = [op |-> "find_books", before |-> books, query |-> query,
                  results |-> find_books(books, query)]
    /\ UNCHANGED <<books, seq, assigned, adds, pc, chat>>

\* A call of get_recommendations(db_manager, query, found_books), with
\* found_books empty or the result of a search for the same query.
Recommend ==
    /\ \E query \in Queries :
          \E found_books \in {<<>>, find_books(books, query)} :
             \E r \in get_recommendations(books, query, found_books) :
                ret' = [op |-> "get_recommendations", before |-> books,
                        query |-> query, found_books |-> found_books,
                        message |-> r.message, books |-> r.books]
    /\ UNCHANGED <<books, seq, assigned, adds, pc, chat>>

(***************************************************************************)
(* student_chat, one request at a time, in the steps between which other   *)
(* requests can run: the search, the subject enumeration of                *)
(* get_recommendations, and its SELECT by subject.                         *)
(***************************************************************************)
Reply(type, query, n, modified) ==
    [op |-> "student_chat", before |-> books, type |-> type, query |-> query,
     listed |-> n, modified |-> modified]

\* Lines 267-286: the role and empty-query checks and find_books.
ChatSearch ==
    /\ pc = "idle"
    /\ \E role \in Roles :
          IF role # "student"
          THEN /\ ret' = Reply("danger", <<>>, 0, FALSE)
               /\ UNCHANGED <<pc, chat>>
          ELSE \E raw \in ChatQueries :
                  LET query == py_strip(raw)
                      found_books == find_books(books, query)
                  IN IF query = <<>>
                     THEN /\ ret' = Reply("warning", query, 0, FALSE)
                          /\ UNCHANGED <<pc, chat>>
                     ELSE IF found_books # <<>>
                     THEN /\ ret' = Reply("success", query, Len(found_books), FALSE)
                          /\ UNCHANGED <<pc, chat>>
                     ELSE /\ pc' = "recommend"
                          /\ chat' = [NoChat EXCEPT !.query = query,
                                                    !.found_books = found_books]
                          /\ ret' = [op |-> "find_books", before |-> books,
                                     query |-> query, results |-> found_books]
    /\ UNCHANGED <<books, seq, assigned, adds>>

\* Lines 131-147 of get_recommendations, called from line 289.
ChatTarget ==
    /\ pc = "recommend"
    /\ \E t \in determine_target(books, normalize(chat.query), chat.found_books) :
          IF t.matched
          THEN /\ pc' = "select"
               /\ chat' = [chat EXCEPT !.target_subject = t.target_subject]
               /\ ret' = [op |-> "determine_target", before |-> books,
                          target_subject |-> t.target_subject]
          ELSE /\ pc' = "idle"
               /\ chat' = NoChat
               /\ ret' = Reply("warning", chat.query, 0, chat.modified)
    /\ UNCHANGED <<books, seq, assigned, adds>>

\* Lines 150-162 of get_recommendations and lines 291-298 of student_chat.
ChatSelect ==
    /\ pc = "select"
    /\ LET r == related_result(books, normalize(chat.query), chat.target_subject)
       IN ret' = Reply(IF r.books # <<>> THEN "info" ELSE "warning",
                       chat.query, Len(r.books), chat.modified)
    /\ pc' = "idle"
    /\ chat' = NoChat
    /\ UNCHANGED <<books, seq, assigned, adds>>

(***************************************************************************)
(* Specifications: the catalog store; the store under searches; the store  *)
(* under recommendations; the store under a chat request.                  *)
(***************************************************************************)
Next ==
    \/ Initialize
    \/ AdminAdd
    \/ AdminRemove
    \/ AdminDashboard

Spec == Init /\ [][Next]_vars

NextSearch ==
    \/ Search
    \/ AdminAdd
    \/ AdminRemove

SpecSearch == Init /\ [][NextSearch]_vars

NextRecommend ==
    \/ Recommend
    \/ AdminAdd
    \/ AdminRemove

SpecRecommend == Init /\ [][NextRecommend]_vars

NextChat ==
    \/ AdminAdd
    \/ AdminRemove
    \/ ChatSearch
    \/ ChatTarget
    \/ ChatSelect

SpecChat == Init /\ [][NextChat]_vars

(***************************************************************************)
(* Properties.                                                             *)
(***************************************************************************)
\* The last operation was remove_book(book_id), reached through an
\* authorized admin_remove_book request.
Removed == ret.op = "admin_remove" /\ ret.flash # "unauthorized"

\* C1: remove(id) for an id that no stored book has returns false, leaves
\* the stored rows unchanged and signals no error, for every id.
C1_RemoveAbsentIsNoOp ==
    (Removed /\ ret.book_id \notin Ids(ret.before))
        => /\ ret.raised = ""
           /\ ret.removed = FALSE
           /\ books = ret.before

\* The part of C1 that the code keeps: the same, for the ids that fit an
\* SQLite INTEGER.
RemoveAbsentWithinInt64 ==
    (Removed /\ ret.book_id \notin Ids(ret.before) /\ ret.book_id <= MaxInt64)
        => /\ ret.raised = ""
           /\ ret.removed = FALSE
           /\ books = ret.before

\* The last operation was add_book(...) and it returned an id.
Added == ret.op = "admin_add" /\ ret.flash = "success"

\* The constraints on the arguments of add.
ValidForm(form) ==
    /\ form.name # <<>>
    /\ form.subject # <<>>
    /\ form.price.kind = "num" /\ form.price.val >= 0
    /\ form.edition.kind = "num" /\ form.edition.val >= 1

\* The Book an add of the given form under the given id is to yield.
BookOf(id, form) ==
    [book_id |-> id, name |-> form.name, subject |-> form.subject,
     price |-> form.price.val, edition |-> form.edition.val]

\* C2: when add returns id N, the following listAll() holds exactly one Book
\* with id N, it carries the given name, subject, price and edition, and
\* every row present before the add is still listed unchanged.
C2_AddListRoundTrip ==
    Added =>
        LET all == get_all_books(books) IN
        /\ Cardinality({i \in DOMAIN all : all[i].book_id = ret.book_id}) = 1
        /\ \A i \in DOMAIN all :
              all[i].book_id = ret.book_id => all[i] = BookOf(ret.book_id, ret.form)
        /\ ret.before \subseteq Range(all)

\* A valid add into a store that holds some of the seed rows.
C2_Witness ==
    /\ Added
    /\ ValidForm(ret.form)
    /\ Cardinality(ret.before) >= 2
    /\ Cardinality(ret.before) < Len(initial_books)

\* C3: in every step, stored books have pairwise distinct ids, a stored
\* book keeps its id and its row, and a row that appears gets an id the
\* store has never assigned before, removed books included.
C3_IdsUniquePermanentNeverReused ==
    [][/\ \A b \in books' : \A c \in books' : b.book_id = c.book_id => b = c
       /\ \A b \in books : \A c \in books' : b.book_id = c.book_id => b = c
       /\ \A c \in books' :
             c.book_id \notin Ids(books) => c.book_id \notin assigned]_vars

\* An add that follows the removal of the row with the largest id.
C3_Witness ==
    /\ Added
    /\ \E i \in assigned : i \notin Ids(ret.before) /\ \A b \in ret.before : b.book_id < i
    /\ ret.before # {}

\* The fields of a row other than its id.
Content(b) ==
    [name |-> b.name, subject |-> b.subject, price |-> b.price,
     edition |-> b.edition]

C9_AddValidates ==
    /\ (ret.op = "admin_add" /\ ret.flash # "unauthorized" /\ ~ValidForm(ret.form))
          => /\ ret.flash \in {"value_error", "application_error", "failed"}
             /\ books = ret.before
    /\ \A b \in books :
          b.name # <<>> /\ b.subject # <<>> /\ b.price >= 0 /\ b.edition >= 1

\* The lower-cased name or subject of b contains the trimmed, lower-cased
\* query as a literal substring.
ContainsQuery(b, query) ==
    \/ py_in(py_lower(py_strip(query)), py_lower(b.name))
    \/ py_in(py_lower(py_strip(query)), py_lower(b.subject))

\* C4: search(q) returns exactly the stored books whose lower-cased name or
\* subject contains the trimmed, lower-cased q as a literal substring.
C4_SearchIsSubstringMatch ==
    ret.op = "find_books" =>
        /\ Range(ret.results) = {b \in books : ContainsQuery(b, ret.query)}
        /\ Len(ret.results) = Cardinality(Range(ret.results))

\* Two queries that differ only in letter case and surrounding whitespace.
CaseSpaceVariants(q1, q2) ==
    LET a == py_strip(q1)
        b == py_strip(q2)
    IN /\ Len(a) = Len(b)
       /\ \A i \in 1..Len(a) : PyLowerChar[a[i]] = PyLowerChar[b[i]]

\* C5: search returns the same result for every query that differs from
\* the given one only in letter case and in surrounding whitespace.
C5_SearchIgnoresCaseAndPadding ==
    ret.op = "find_books" =>
        \A q \in Queries :
            CaseSpaceVariants(ret.query, q) => find_books(books, q) = ret.results

C5_Witness ==
    /\ ret.op = "find_books"
    /\ ret.query = <<" ", "M", "A", "T", "H", " ">>
    /\ Len(ret.results) >= 2
    /\ Len(ret.results) < Cardinality(books)

\* The last operation was get_recommendations and it chose a target subject.
Related == ret.op = "get_recommendations" /\ ret.message.kind = "related"

\* C6: when recommend selects a target subject, the suggestions are exactly
\* the stored books whose subject equals it, minus every book whose
\* lower-cased name equals the trimmed, lower-cased query.
C6_SuggestionsAreSubjectMinusQuery ==
    Related =>
        /\ Range(ret.books) =
              {b \in books :
                  /\ b.subject = ret.message.target_subject
                  /\ py_lower(b.name) # py_lower(py_strip(ret.query))}
        /\ Len(ret.books) = Cardinality(Range(ret.books))

\* Book A is named like the query up to case and is left out, book B of the
\* same subject is suggested.
C6_Witness ==
    /\ Related
    /\ ret.books # <<>>
    /\ \E a \in books :
          /\ a.subject = ret.message.target_subject
          /\ a.name # py_strip(ret.query)
          /\ py_lower(a.name) = py_lower(py_strip(ret.query))
          /\ a \notin Range(ret.books)

\* The last operation was get_recommendations with an empty search result
\* and a query that no stored subject contains.
NoSubjectMatches ==
    /\ ret.op = "get_recommendations"
    /\ ret.found_books = <<>>
    /\ \A b \in ret.before :
          ~py_in(py_lower(py_strip(ret.query)), py_lower(b.subject))

\* C7: with an empty search result and no stored subject containing the
\* query, recommend returns no suggestion and a message that names the
\* query and lists every distinct stored subject exactly once (or says that
\* none is available in an empty store), and the store is unchanged.
C7_NoMatchListsSubjects ==
    NoSubjectMatches =>
        /\ ret.books = <<>>
        /\ ret.message.kind = "no_match"
        /\ ret.message.query = py_lower(py_strip(ret.query))
        /\ IF ret.before = {}
           THEN /\ ret.message.subjects.none
                /\ ret.message.subjects.listed = EmptyBag
           ELSE /\ ~ret.message.subjects.none
                /\ BagToSet(ret.message.subjects.listed)
                      = {b.subject : b \in ret.before}
                /\ \A s \in BagToSet(ret.message.subjects.listed) :
                      CopiesIn(s, ret.message.subjects.listed) = 1
        /\ books = ret.before

\* No subject matches in a store where two books share a subject.
C7_Witness ==
    /\ NoSubjectMatches
    /\ ret.query = <<"z", "z">>
    /\ \E b \in ret.before : \E c \in ret.before :
          b # c /\ b.subject = c.subject
    /\ Cardinality({b.subject : b \in ret.before}) >= 2

\* C10: a chat request during which the store was not modified never
\* answers with suggested titles (type 'info').
C10_InfoOnlyAfterConcurrentChange ==
    (ret.op = "student_chat" /\ ~ret.modified) => ret.type # "info"
====
